---- MODULE Spec2Model ----
(***************************************************************************)
(* Model of process_ai_data (src/core/data_processor.py): a '%'-delimited  *)
(* text file is parsed line by line into records and warnings, and the     *)
(* records are written to a spreadsheet.                                   *)
(*                                                                         *)
(* A string is a sequence of one-character strings.  A line of the file is *)
(* the text of the line without its line terminator (strip() removes the   *)
(* terminator together with any other surrounding whitespace).  A record   *)
(* (a Python dict) is a sequence of <<key, value>> pairs in insertion      *)
(* order with pairwise different keys.                                     *)
(***************************************************************************)
EXTENDS Integers, Sequences, FiniteSets, TLC

\* ---- bounds of the model ----
MaxChars == 4      \* most characters of the input file, line terminators aside
MaxData == 2       \* most lines after the header line
MaxCols == 2       \* largest num_columns the caller passes

\* ---- program constants ----
DELIMITER == "%"
EnumStart == 2     \* enumerate(f, start=2)

Whitespace == {" "}
Chars == {DELIMITER, "a", " "}
\* the lines of at most t characters
Lines(t) == UNION {[1..n -> Chars] : n \in 0..t}

\* the files of at most k lines and t characters
RECURSIVE FilesUpTo(_, _)
FilesUpTo(k, t) ==
  IF k = 0
  THEN {<<>>}
  ELSE {<<>>} \cup
       UNION {{<<l>> \o rest : rest \in FilesUpTo(k - 1, t - Len(l))} : l \in Lines(t)}

Files == FilesUpTo(MaxData + 1, MaxChars)
FileStates == {"missing", "unopenable", "undecodable", "ok"}

NoDf == "None"

VARIABLES
  status,                   \* what the file system holds at input_file_path
  file,                     \* the lines of the input file
  num_columns,
  ignore_extra_delimiters,
  pc,                       \* position in process_ai_data
  headers,
  consumed,                 \* how many lines have been read from f
  line_num,                 \* the counter of enumerate(f, start=2)
  processed_data,
  warnings,
  df,                       \* first component of the returned pair
  to_excel                  \* "none", "ok", "failed": the call of df.to_excel

vars == <<status, file, num_columns, ignore_extra_delimiters, pc, headers,
          consumed, line_num, processed_data, warnings, df, to_excel>>

\* ---- str methods ----
RECURSIVE LStrip(_)
LStrip(s) ==
  IF s # <<>> /\ Head(s) \in Whitespace THEN LStrip(Tail(s)) ELSE s

RECURSIVE RStrip(_)
RStrip(s) ==
  IF s # <<>> /\ s[Len(s)] \in Whitespace
  THEN RStrip(SubSeq(s, 1, Len(s) - 1))
  ELSE s

\* mutant: the line is used as read, not stripped
Strip_Missing(s) == s

Strip(s) == RStrip(LStrip(s))

\* index of the first DELIMITER of s, 0 when there is none
Find(s) ==
  IF \E i \in 1..Len(s) : s[i] = DELIMITER
  THEN CHOOSE i \in 1..Len(s) :
         s[i] = DELIMITER /\ \A j \in 1..(i - 1) : s[j] # DELIMITER
  ELSE 0

\* s.split(DELIMITER, maxsplit); a negative maxsplit means no limit
RECURSIVE Split(_, _)
Split(s, maxsplit) ==
  LET i == Find(s)
  IN  IF maxsplit = 0 \/ i = 0
      THEN <<s>>
      ELSE <<SubSeq(s, 1, i - 1)>> \o Split(SubSeq(s, i + 1, Len(s)), maxsplit - 1)

\* s.count(DELIMITER)
Count(s) == Cardinality({i \in 1..Len(s) : s[i] = DELIMITER})

\* d[k] = v on a dict d
DictSet(d, k, v) ==
  IF \E i \in 1..Len(d) : d[i][1] = k
  THEN [i \in 1..Len(d) |-> IF d[i][1] = k THEN <<k, v>> ELSE d[i]]
  ELSE Append(d, <<k, v>>)

\* dict(zip(keys, vals))
RECURSIVE DictZip(_, _)
DictZip(keys, vals) ==
  IF keys = <<>> \/ vals = <<>>
  THEN <<>>
  ELSE LET n == IF Len(keys) < Len(vals) THEN Len(keys) ELSE Len(vals)
       IN  DictSet(DictZip(SubSeq(keys, 1, n - 1), SubSeq(vals, 1, n - 1)),
                   keys[n], vals[n])

\* ---- warnings ----
Msg(kind, line, expected, found, row) ==
  [kind |-> kind, line |-> line, expected |-> expected, found |-> found, row |-> row]

NotFoundMsg == Msg("not_found", 0, 0, 0, <<>>)
HeaderMismatchMsg(n, found) == Msg("header_mismatch", 0, n, found, <<>>)
\* mutant: cites the number of the data row, not of the file line
RepeatedHeaderMsg_DataRow(ln) == Msg("repeated_header", ln - 1, 0, 0, <<>>)
RepeatedHeaderMsg(ln) == Msg("repeated_header", ln, 0, 0, <<>>)
ExtraDelimitersMsg(ln) == Msg("extra_delimiters", ln, 0, 0, <<>>)
ColumnMismatchMsg(ln, n, found, row) == Msg("column_mismatch", ln, n, found, row)
NoValidDataMsg == Msg("no_valid_data", 0, 0, 0, <<>>)
SavedMsg == Msg("saved", 0, 0, 0, <<>>)
ExcelErrorMsg == Msg("excel_error", 0, 0, 0, <<>>)

\* ---- the body of the for loop, for one line ----
PartsForCheck(stripped_line) == Split(stripped_line, -1)

\* mutant: maxsplit is num_columns, one split too many
Parts_OneMore(stripped_line, n, flag) ==
  IF flag THEN Split(stripped_line, n) ELSE Split(stripped_line, -1)

Parts(stripped_line, n, flag) ==
  IF flag THEN Split(stripped_line, n - 1) ELSE Split(stripped_line, -1)

ExtraWarning(stripped_line, n, flag, ln) ==
  IF flag /\ Count(stripped_line) > n - 1 THEN <<ExtraDelimitersMsg(ln)>> ELSE <<>>

LineResult(hdrs, n, flag, ln, line) ==
  LET stripped_line == Strip(line)
      parts == Parts(stripped_line, n, flag)
  IN  IF stripped_line = <<>>
      THEN [data |-> <<>>, warnings |-> <<>>]
      ELSE IF PartsForCheck(stripped_line) = hdrs
      THEN [data |-> <<>>, warnings |-> <<RepeatedHeaderMsg(ln)>>]
      ELSE IF Len(parts) = n
      THEN [data |-> <<DictZip(hdrs, parts)>>,
            warnings |-> ExtraWarning(stripped_line, n, flag, ln)]
      ELSE [data |-> <<>>,
            warnings |-> ExtraWarning(stripped_line, n, flag, ln)
                         \o <<ColumnMismatchMsg(ln, n, Len(parts), stripped_line)>>]

\* mutant: the header line is split with maxsplit as the data lines are
HeaderOf_Limited(f) ==
  Split(Strip(IF f = <<>> THEN <<>> ELSE f[1]), num_columns - 1)

\* f.readline().strip().split(DELIMITER); readline() is '' at end of file
HeaderOf(f) == Split(Strip(IF f = <<>> THEN <<>> ELSE f[1]), -1)

\* the number of lines f.readline() takes from a file not read yet
ReadLine(f) == IF f = <<>> THEN 0 ELSE 1

\* ---- the state machine ----
Init ==
  /\ status \in FileStates
  /\ file \in (IF status = "ok" THEN Files ELSE {<<>>})
  /\ num_columns \in 1..MaxCols
  /\ ignore_extra_delimiters \in BOOLEAN
  /\ pc = "exists"
  /\ headers = <<>>
  /\ consumed = 0
  /\ line_num = EnumStart
  /\ processed_data = <<>>
  /\ warnings = <<>>
  /\ df = NoDf
  /\ to_excel = "none"

Inputs == <<status, file, num_columns, ignore_extra_delimiters>>

\* os.path.exists is false: one warning, return None
FileNotFound ==
  /\ pc = "exists"
  /\ status = "missing"
  /\ warnings' = Append(warnings, NotFoundMsg)
  /\ df' = NoDf
  /\ pc' = "returned"
  /\ UNCHANGED <<Inputs, headers, consumed, line_num, processed_data, to_excel>>

\* open() raises outside any try block
OpenRaises ==
  /\ pc = "exists"
  /\ status = "unopenable"
  /\ pc' = "raised"
  /\ UNCHANGED <<Inputs, headers, consumed, line_num, processed_data, warnings, df, to_excel>>

OpenOk ==
  /\ pc = "exists"
  /\ status \in {"ok", "undecodable"}
  /\ pc' = "header"
  /\ UNCHANGED <<Inputs, headers, consumed, line_num, processed_data, warnings, df, to_excel>>

\* f.readline() raises UnicodeDecodeError outside any try block
ReadRaises ==
  /\ pc = "header"
  /\ status = "undecodable"
  /\ pc' = "raised"
  /\ UNCHANGED <<Inputs, headers, consumed, line_num, processed_data, warnings, df, to_excel>>

HeaderMismatch ==
  /\ pc = "header"
  /\ status = "ok"
  /\ Len(HeaderOf(file)) # num_columns
  /\ headers' = HeaderOf(file)
  /\ consumed' = ReadLine(file)
  /\ warnings' = Append(warnings, HeaderMismatchMsg(num_columns, Len(HeaderOf(file))))
  /\ df' = NoDf
  /\ pc' = "returned"
  /\ UNCHANGED <<Inputs, line_num, processed_data, to_excel>>

HeaderOk ==
  /\ pc = "header"
  /\ status = "ok"
  /\ Len(HeaderOf(file)) = num_columns
  /\ headers' = HeaderOf(file)
  /\ consumed' = ReadLine(file)
  /\ pc' = "loop"
  /\ UNCHANGED <<Inputs, line_num, processed_data, warnings, df, to_excel>>

\* one iteration of the for loop
ProcessLine ==
  /\ pc = "loop"
  /\ consumed < Len(file)
  /\ LET r == LineResult(headers, num_columns, ignore_extra_delimiters,
                         line_num, file[consumed + 1])
     IN  /\ processed_data' = processed_data \o r.data
         /\ warnings' = warnings \o r.warnings
  /\ consumed' = consumed + 1
  /\ line_num' = line_num + 1
  /\ UNCHANGED <<Inputs, pc, headers, df, to_excel>>

\* mutant: the warnings of the loop are dropped
NoValidData_Reset ==
  /\ pc = "loop"
  /\ consumed >= Len(file)
  /\ processed_data = <<>>
  /\ warnings' = <<NoValidDataMsg>>
  /\ df' = NoDf
  /\ pc' = "returned"
  /\ UNCHANGED <<Inputs, headers, consumed, line_num, processed_data, to_excel>>

\* the loop is over and processed_data is empty
NoValidData ==
  /\ pc = "loop"
  /\ consumed >= Len(file)
  /\ processed_data = <<>>
  /\ warnings' = Append(warnings, NoValidDataMsg)
  /\ df' = NoDf
  /\ pc' = "returned"
  /\ UNCHANGED <<Inputs, headers, consumed, line_num, processed_data, to_excel>>

LoopDone ==
  /\ pc = "loop"
  /\ consumed >= Len(file)
  /\ processed_data # <<>>
  /\ pc' = "export"
  /\ UNCHANGED <<Inputs, headers, consumed, line_num, processed_data, warnings, df, to_excel>>

\* mutant: no success message is appended
SaveOk_Silent ==
  /\ pc = "export"
  /\ to_excel' = "ok"
  /\ df' = processed_data
  /\ pc' = "returned"
  /\ UNCHANGED <<Inputs, headers, consumed, line_num, processed_data, warnings>>

SaveOk ==
  /\ pc = "export"
  /\ to_excel' = "ok"
  /\ warnings' = Append(warnings, SavedMsg)
  /\ df' = processed_data
  /\ pc' = "returned"
  /\ UNCHANGED <<Inputs, headers, consumed, line_num, processed_data>>

\* mutant: the parsed records are returned although the export failed
SaveFails_KeepsData ==
  /\ pc = "export"
  /\ to_excel' = "failed"
  /\ warnings' = Append(warnings, ExcelErrorMsg)
  /\ df' = processed_data
  /\ pc' = "returned"
  /\ UNCHANGED <<Inputs, headers, consumed, line_num, processed_data>>

SaveFails ==
  /\ pc = "export"
  /\ to_excel' = "failed"
  /\ warnings' = Append(warnings, ExcelErrorMsg)
  /\ df' = NoDf
  /\ pc' = "returned"
  /\ UNCHANGED <<Inputs, headers, consumed, line_num, processed_data>>

Next ==
  \/ FileNotFound
  \/ OpenRaises
  \/ OpenOk
  \/ ReadRaises
  \/ HeaderMismatch
  \/ HeaderOk
  \/ ProcessLine
  \/ NoValidData
  \/ LoopDone
  \/ SaveOk
  \/ SaveFails

Spec == Init /\ [][Next]_vars

TypeOK ==
  /\ pc \in {"exists", "header", "loop", "export", "returned", "raised"}
  /\ consumed \in 0..(MaxData + 1)
  /\ line_num \in EnumStart..(EnumStart + MaxData)

\* ---- the for loop as a function of the file ----
\* warnings and records of the iterations that read lines k..Len(f) of f,
\* the first of them with the counter at ln
RECURSIVE RunLines(_, _, _, _, _, _)
RunLines(hdrs, n, flag, f, k, ln) ==
  IF k > Len(f)
  THEN [data |-> <<>>, warnings |-> <<>>]
  ELSE LET r == LineResult(hdrs, n, flag, ln, f[k])
           rest == RunLines(hdrs, n, flag, f, k + 1, ln + 1)
       IN  [data |-> r.data \o rest.data, warnings |-> r.warnings \o rest.warnings]

Loop(f, n, flag) == RunLines(HeaderOf(f), n, flag, f, 2, EnumStart)

\* ---- vocabulary of the properties ----
Returned == pc = "returned"
FirstLine == IF file = <<>> THEN <<>> ELSE file[1]
HeaderParts == Split(Strip(FirstLine), -1)
HeaderFits == status = "ok" /\ Len(HeaderParts) = num_columns
HeaderWrong == status = "ok" /\ ~HeaderFits
LoopOver == pc = "loop" /\ consumed >= Len(file)
AtLine == pc = "loop" /\ consumed < Len(file)
CurLine == Strip(file[consumed + 1])
IsBlank(line) == \A i \in 1..Len(line) : line[i] \in Whitespace
Keys(rec) == [i \in 1..Len(rec) |-> rec[i][1]]
Values(rec) == [i \in 1..Len(rec) |-> rec[i][2]]
Last(q) == q[Len(q)]
Front(q) == SubSeq(q, 1, Len(q) - 1)
Distinct(q) == \A i, j \in 1..Len(q) : q[i] = q[j] => i = j

RECURSIVE Join(_)
Join(parts) ==
  IF Len(parts) = 0 THEN <<>>
  ELSE IF Len(parts) = 1 THEN parts[1]
  ELSE parts[1] \o <<DELIMITER>> \o Join(Tail(parts))

NoDelimiter(s) == \A i \in 1..Len(s) : s[i] # DELIMITER

RECURSIVE IsSubseq(_, _)
IsSubseq(a, b) ==
  IF a = <<>> THEN TRUE
  ELSE IF b = <<>> THEN FALSE
  ELSE IF Head(a) = Head(b) THEN IsSubseq(Tail(a), Tail(b))
  ELSE IsSubseq(a, Tail(b))

\* positions of the lines of f that yield a record
RECURSIVE Accepted(_, _, _, _)
Accepted(f, n, flag, k) ==
  IF k > Len(f) THEN <<>>
  ELSE LET s == Strip(f[k])
           unlimited == Split(s, -1)
           ok == /\ s # <<>>
                 /\ unlimited # Split(Strip(f[1]), -1)
                 /\ IF flag THEN Len(unlimited) >= n ELSE Len(unlimited) = n
       IN  (IF ok THEN <<k>> ELSE <<>>) \o Accepted(f, n, flag, k + 1)

\* the fields of line k of f under the flag: the first n-1 parts, then the rest
FieldsOf(f, n, flag, k) ==
  LET unlimited == Split(Strip(f[k]), -1)
  IN  IF flag
      THEN [i \in 1..n |-> IF i < n THEN unlimited[i]
                           ELSE Join(SubSeq(unlimited, n, Len(unlimited)))]
      ELSE unlimited

\* ---- C1 ----
\* C1: whenever records are returned, every record has exactly num_columns
\* keys, the keys are the header sequence in header order, and key i is
\* mapped to field i of the data line the record was built from.
C1_RecordsFollowHeader ==
  (Returned /\ df # NoDf) =>
    LET src == Accepted(file, num_columns, ignore_extra_delimiters, 2)
    IN  /\ Len(df) = Len(src)
        /\ \A k \in 1..Len(df) :
             /\ Len(df[k]) = num_columns
             /\ Keys(df[k]) = HeaderParts
             /\ Values(df[k]) = FieldsOf(file, num_columns, ignore_extra_delimiters, src[k])

\* ---- C2 ----
ExtraLine ==
  /\ AtLine
  /\ Count(CurLine) > num_columns - 1
  /\ Split(CurLine, -1) # headers

\* C2: a data line with more than num_columns-1 delimiters that is not the
\* header gives, with the flag off, one column-count warning (expected
\* num_columns, found the unlimited part count) and no record; with the flag
\* on, one record whose first num_columns-1 fields are the first parts and
\* whose last field is the remainder of the stripped line, and one
\* 'extra delimiters' warning.
C2_ExtraDelimiters ==
  [][ExtraLine =>
       IF ~ignore_extra_delimiters
       THEN /\ processed_data' = processed_data
            /\ warnings' = Append(warnings,
                 ColumnMismatchMsg(consumed + 1, num_columns, Count(CurLine) + 1, CurLine))
       ELSE /\ Len(processed_data') = Len(processed_data) + 1
            /\ Front(processed_data') = processed_data
            /\ LET rec == Last(processed_data')
               IN  /\ Len(rec) = num_columns
                   /\ \A i \in 1..(num_columns - 1) :
                        /\ rec[i][2] = Split(CurLine, -1)[i]
                        /\ NoDelimiter(rec[i][2])
                   /\ Join(Values(rec)) = CurLine
            /\ warnings' = Append(warnings, ExtraDelimitersMsg(consumed + 1))
    ]_vars

\* ---- C3 ----
RepeatedLine ==
  /\ AtLine
  /\ ~IsBlank(file[consumed + 1])
  /\ Split(CurLine, -1) = HeaderParts

\* C3: a non-blank data line whose unlimited split is the header sequence
\* adds no record and exactly one warning, the 'repeated header' warning
\* with the line's 1-based number in the file, whatever the flag.
C3_RepeatedHeader ==
  [][RepeatedLine =>
       /\ processed_data' = processed_data
       /\ Len(warnings') = Len(warnings) + 1
       /\ Front(warnings') = warnings
       /\ Last(warnings').kind = "repeated_header"
       /\ Last(warnings').line = consumed + 1
    ]_vars

C3_Witness ==
  /\ pc = "loop"
  /\ consumed = 3
  /\ ignore_extra_delimiters
  /\ IsBlank(file[2])
  /\ Split(Strip(file[3]), -1) = headers
  /\ Len(warnings) = 1
  /\ warnings[1].kind = "repeated_header"
  /\ warnings[1].line = 3

C7_NoExceptionEscapes ==
  /\ pc # "raised"
  /\ (Returned /\ status = "missing") => (df = NoDf /\ warnings = <<NotFoundMsg>>)
  /\ (Returned /\ df = NoDf) => warnings # <<>>

\* ---- C8 ----
BlankLine == AtLine /\ IsBlank(file[consumed + 1])

\* positions of the header line and of the non-blank lines of f, from k on
RECURSIVE Kept(_, _)
Kept(f, k) ==
  IF k > Len(f) THEN <<>>
  ELSE (IF k = 1 \/ ~IsBlank(f[k]) THEN <<k>> ELSE <<>>) \o Kept(f, k + 1)

\* f without its blank data lines
Compact(f) == [j \in 1..Len(Kept(f, 1)) |-> f[Kept(f, 1)[j]]]

\* a warning about line w.line of Compact(f), as a warning about f
Renumber(f, w) == IF w.line = 0 THEN w ELSE [w EXCEPT !.line = Kept(f, 1)[w.line]]

\* C8: a data line that is empty or whitespace-only changes neither the
\* records nor the warnings; the records of a file are those of the file
\* without its blank data lines, and so are the warnings once each line
\* number is mapped back to the line's place in the file.
C8_BlankLines ==
  /\ [][BlankLine => (processed_data' = processed_data /\ warnings' = warnings)]_vars
  /\ [](LoopOver =>
          LET short == Loop(Compact(file), num_columns, ignore_extra_delimiters)
          IN  /\ processed_data = short.data
              /\ warnings = [i \in 1..Len(short.warnings) |->
                               Renumber(file, short.warnings[i])])

C8_Witness ==
  /\ LoopOver
  /\ Len(file) = 3
  /\ IsBlank(file[2])
  /\ file[2] # <<>>
  /\ Len(warnings) = 1
  /\ warnings[1].line = 3

\* ---- C9 ----
PerLineKinds == {"repeated_header", "extra_delimiters", "column_mismatch"}

IsRepeated(w) == w.kind = "repeated_header"

\* C10: on the same file and num_columns, the records parsed with the flag
\* off are a subsequence of those parsed with the flag on, a line accepted
\* with the flag off gives the same record with the flag on, the header and
\* the repeated-header skips do not depend on the flag, and with the flag on
\* a column-count error reports fewer than num_columns parts.
C10_FlagComparison ==
  /\ pc \in {"loop", "export"} => (HeaderFits /\ headers = HeaderParts)
  /\ LoopOver =>
       LET mine == [data |-> processed_data, warnings |-> warnings]
           off == IF ignore_extra_delimiters
                  THEN Loop(file, num_columns, FALSE) ELSE mine
           on == IF ignore_extra_delimiters
                 THEN mine ELSE Loop(file, num_columns, TRUE)
       IN  /\ IsSubseq(off.data, on.data)
           /\ SelectSeq(off.warnings, IsRepeated) = SelectSeq(on.warnings, IsRepeated)
           /\ \A i \in 1..Len(on.warnings) :
                on.warnings[i].kind = "column_mismatch"
                  => on.warnings[i].found < num_columns
           /\ \A k \in 2..Len(file) :
                LET rOff == LineResult(headers, num_columns, FALSE, k, file[k])
                    rOn == LineResult(headers, num_columns, TRUE, k, file[k])
                IN  rOff.data # <<>> => rOn.data = rOff.data

C10_Witness ==
  /\ LoopOver
  /\ ignore_extra_delimiters
  /\ Len(processed_data) = 2
  /\ Len(Loop(file, num_columns, FALSE).data) = 1
  /\ Loop(file, num_columns, FALSE).data[1] = processed_data[2]
====
